---- MODULE Spec2Model ----
(***************************************************************************)
(* Model of the ableist-language pattern matcher                           *)
(* (ability_skills_decoder/decoder.py, extract_terms.py) and of the        *)
(* MLflow model wrappers that format its matches.                          *)
(*                                                                         *)
(* A parsed document is a function from token index (0-based, as spaCy's   *)
(* Token.i) to a token record [pos, dep, lemma, head]; head is the index   *)
(* of the syntactic head, and the root is its own head, as in spaCy.       *)
(***************************************************************************)
EXTENDS Integers, Sequences, FiniteSets, TLC

VARIABLES
    doc,                             \* the parsed document handed to the matchers
    ableist_verbs,                   \* ABLEIST_VERBS
    ableist_verbs_object_dependent,  \* ABLEIST_VERBS_OBJECT_DEPENDENT
    ableist_objects,                 \* ABLEIST_OBJECTS
    pc,                              \* which call the driver makes next
    term_runs,                       \* return values of find_ableist_terms, one per call
    phrase_runs,                     \* return values of match_dependent_ableist_verbs
    printed,                         \* what find_ableist_terms printed
    wrapper,                         \* which MLflowLanguageModel is in use
    results,                         \* what self.func(input_text) returned
    properties,                      \* model_input['properties'][0]
    outcome,                         \* "pending", "returned" or the exception raised
    terms,                           \* the dictionary predict returned
    model_version,                   \* wait_model_transition's model_version argument
    stage,                           \* wait_model_transition's stage argument
    iteration,                       \* how many values range(10) has handed out
    status,                          \* the status the last poll observed
    client_calls,                    \* the calls this invocation has made on the MlflowClient
    wait_pc                          \* where wait_model_transition is

vars == <<doc, ableist_verbs, ableist_verbs_object_dependent, ableist_objects,
          pc, term_runs, phrase_runs, printed,
          wrapper, results, properties, outcome, terms,
          model_version, stage, iteration, status, client_calls, wait_pc>>

matcher_vars == <<doc, ableist_verbs, ableist_verbs_object_dependent,
                  ableist_objects, pc, term_runs, phrase_runs, printed>>

predict_vars == <<wrapper, results, properties, outcome, terms>>

wait_vars == <<model_version, stage, iteration, status, client_calls, wait_pc>>

\* main has not reached its calls of wait_model_transition
NotWaiting ==
    /\ model_version = "none"
    /\ stage = "none"
    /\ iteration = 0
    /\ status = "none"
    /\ client_calls = <<>>
    /\ wait_pc = "none"

lexicon == <<ableist_verbs, ableist_verbs_object_dependent, ableist_objects>>

----------------------------------------------------------------------------
(* Bounds *)

\* longest document built from the small palette of token kinds
MaxTokens == 4
\* longest document built from the full product of tags, labels and lemmas
MaxLabelTokens == 2
\* most matches handed to predict
MaxMatches == 2
\* most property names a caller asks for
MaxProperties == 2
\* highest start index of a match handed to predict
MaxStart == 1

----------------------------------------------------------------------------
(* Documents *)

DocLen(d) == Cardinality(DOMAIN d)

Max(S) == CHOOSE x \in S : \A y \in S : y <= x

\* the token reached from k by following the head reference `steps` times
RECURSIVE Climb(_, _, _)
Climb(heads, k, steps) ==
    IF steps = 0 THEN k ELSE Climb(heads, heads[k], steps - 1)

\* k is h or one of h's transitive syntactic dependents
InSubtree(heads, h, k) ==
    \E s \in 0..Cardinality(DOMAIN heads) : Climb(heads, k, s) = h

\* one root (its own head), no cycle, and no crossing arcs: what the
\* transition-based parser of en_core_web_sm produces for a sentence; the
\* empty text gives the document with no tokens
IsProjectiveTree(heads) ==
    LET n == Cardinality(DOMAIN heads)
        roots == {k \in DOMAIN heads : heads[k] = k}
    IN  /\ Cardinality(roots) = (IF n = 0 THEN 0 ELSE 1)
        /\ \A k \in DOMAIN heads : \E r \in roots : InSubtree(heads, r, k)
        /\ \A k \in DOMAIN heads :
              \A j \in DOMAIN heads :
                 (\/ (k < j /\ j < heads[k])
                  \/ (heads[k] < j /\ j < k)) => InSubtree(heads, heads[k], j)

Trees(n) == {heads \in [0..(n - 1) -> 0..(n - 1)] : IsProjectiveTree(heads)}

\* the document with the given heads and (pos, dep, lemma) kinds; the root's
\* dependency label is ROOT
MakeDoc(heads, kinds) ==
    [k \in DOMAIN heads |->
        [pos   |-> kinds[k].pos,
         dep   |-> IF heads[k] = k THEN "ROOT" ELSE kinds[k].dep,
         lemma |-> kinds[k].lemma,
         head  |-> heads[k]]]

\* a small palette: two object-dependent verbs, an auxiliary use of one of
\* them, a listed object, a modifier
TreeKinds ==
    { [pos |-> "VERB", dep |-> "xcomp",  lemma |-> "move"],
      [pos |-> "VERB", dep |-> "xcomp",  lemma |-> "lift"],
      [pos |-> "VERB", dep |-> "aux",    lemma |-> "lift"],
      [pos |-> "NOUN", dep |-> "dobj",   lemma |-> "hand"],
      [pos |-> "ADV",  dep |-> "advmod", lemma |-> "repeatedly"] }

\* every combination of tag, dependency label and lemma
LabelKinds ==
    [pos : {"VERB", "NOUN"},
     dep : {"dobj", "aux", "auxpass", "neg", "advmod"},
     lemma : {"move", "lift", "hand"}]

\* nlp("must be able to move your hands repeatedly")
TestDoc ==
    [k \in 0..7 |->
        CASE k = 0 -> [pos |-> "AUX",  dep |-> "aux",    lemma |-> "must", head |-> 1]
          [] k = 1 -> [pos |-> "AUX",  dep |-> "ROOT",   lemma |-> "be",   head |-> 1]
          [] k = 2 -> [pos |-> "ADJ",  dep |-> "acomp",  lemma |-> "able", head |-> 1]
          [] k = 3 -> [pos |-> "PART", dep |-> "aux",    lemma |-> "to",   head |-> 4]
          [] k = 4 -> [pos |-> "VERB", dep |-> "xcomp",  lemma |-> "move", head |-> 2]
          [] k = 5 -> [pos |-> "PRON", dep |-> "poss",   lemma |-> "your", head |-> 6]
          [] k = 6 -> [pos |-> "NOUN", dep |-> "dobj",   lemma |-> "hand", head |-> 4]
          [] k = 7 -> [pos |-> "ADV",  dep |-> "advmod", lemma |-> "repeatedly", head |-> 4]]

\* the documents the matchers are run on
IsInputDoc(d) ==
    \/ \E n \in 0..MaxTokens : \E heads \in Trees(n) :
          \E kinds \in [0..(n - 1) -> TreeKinds] : d = MakeDoc(heads, kinds)
    \/ \E n \in 0..MaxLabelTokens : \E heads \in Trees(n) :
          \E kinds \in [0..(n - 1) -> LabelKinds] : d = MakeDoc(heads, kinds)
    \/ d = TestDoc

----------------------------------------------------------------------------
(* spaCy accessors used by the matchers *)

Heads(d) == [k \in DOMAIN d |-> d[k].head]

\* Token.right_edge.i: the highest index among the token and its descendants
RightEdge(d, k) == Max({j \in DOMAIN d : InSubtree(Heads(d), k, j)})

\* doc[start:stop]: the slice bounds are clamped as Python slices are, so a
\* stop before the start gives the empty span at start
DocSlice(d, start, stop) ==
    LET length == DocLen(d)
        s0 == IF start < 0 THEN start + length ELSE start
        s  == IF s0 < 0 THEN 0 ELSE IF s0 > length THEN length ELSE s0
        e0 == IF stop < 0 THEN stop + length ELSE stop
        e1 == IF e0 < s THEN s ELSE e0
        e  == IF e1 > length THEN length ELSE e1
    IN  [kind |-> "Span", start |-> s, end |-> e]

\* the tokens in iteration order (for token in doc)
DocTokens(d) == [k \in 1..DocLen(d) |-> [kind |-> "Token", i |-> k - 1]]

----------------------------------------------------------------------------
(* extract_terms.py *)

\* is_verb without the test of the dependency label
is_verb_any_label(token) == token.pos = "VERB"

\* is_verb with "neg" missing from the excluded labels
is_verb_without_neg(token) ==
    token.pos = "VERB" /\ token.dep \notin {"aux", "auxpass"}

is_verb(token) ==
    token.pos = "VERB" /\ token.dep \notin {"aux", "auxpass", "neg"}

get_verbs(spacy_doc, return_lemma) ==
    LET IsVerbAt(t) == is_verb(spacy_doc[t.i])
        verbs == SelectSeq(DocTokens(spacy_doc), IsVerbAt)
    IN  IF return_lemma
        THEN [k \in DOMAIN verbs |-> spacy_doc[verbs[k].i].lemma]
        ELSE verbs

Children(d, k) == {j \in DOMAIN d : d[j].head = k /\ j # k}

get_verb_phrases(spacy_doc) ==
    LET IsDobj(t) == spacy_doc[t.i].dep = "dobj"
        dobjs == SelectSeq(DocTokens(spacy_doc), IsDobj)
    IN  [k \in DOMAIN dobjs |->
            <<spacy_doc[dobjs[k].i].head, Children(spacy_doc, dobjs[k].i), dobjs[k].i>>]

----------------------------------------------------------------------------
(* decoder.py *)

\* the span up to the verb's right edge: doc[token.head.i : token.head.right_edge.i + 1]
matched_phrase_verb_edge(d, i) ==
    DocSlice(d, d[i].head, RightEdge(d, d[i].head) + 1)

\* the span up to the object itself: doc[token.head.i : token.i + 1]
matched_phrase_to_object(d, i) == DocSlice(d, d[i].head, i + 1)

\* doc[token.head.i : token.right_edge.i + 1]
matched_phrase(d, i) == DocSlice(d, d[i].head, RightEdge(d, i) + 1)

RECURSIVE MatchFrom(_, _, _, _, _)
MatchFrom(d, i, dependent, objects, matched_phrases) ==
    IF i >= DocLen(d)
    THEN matched_phrases
    ELSE LET token == d[i]
         IN  MatchFrom(d, i + 1, dependent, objects,
                IF /\ token.dep = "dobj"
                   /\ token.lemma \in objects
                   /\ is_verb(d[token.head])
                   /\ d[token.head].lemma \in dependent
                THEN Append(matched_phrases, matched_phrase(d, i))
                ELSE matched_phrases)

\* the matcher with matched_phrases seeded with the whole document, doc[:]
match_dependent_seeded(d, dependent, objects) ==
    MatchFrom(d, 0, dependent, objects, <<DocSlice(d, 0, DocLen(d))>>)

match_dependent_ableist_verbs(d, dependent, objects) ==
    MatchFrom(d, 0, dependent, objects, <<>>)

\* find_ableist_terms after nlp(text) has produced the document
find_ableist_terms(job_description_doc, verbs) ==
    LET jd_verbs == get_verbs(job_description_doc, FALSE)
        Listed(t) == job_description_doc[t.i].lemma \in verbs
    IN  SelectSeq(jd_verbs, Listed)

----------------------------------------------------------------------------------------------------------------------------------------
(* The driver: both matchers are called on the same parsed document and    *)
(* the same word lists, and then both are called again.                    *)

Init ==
    /\ IsInputDoc(doc)
    /\ ableist_verbs = {"lift", "see"}
    /\ ableist_verbs_object_dependent = {"move", "lift"}
    /\ ableist_objects = {"hand", "foot"}
    /\ pc = "terms"
    /\ term_runs = <<>>
    /\ phrase_runs = <<>>
    /\ printed = <<>>
    /\ wrapper = "none"
    /\ results = <<>>
    /\ properties = <<>>
    /\ outcome = "pending"
    /\ terms = <<>>
    /\ NotWaiting

FindAbleistTerms ==
    /\ pc \in {"terms", "terms again"}
    /\ term_runs' = Append(term_runs, find_ableist_terms(doc, ableist_verbs))
    /\ printed' = Append(printed, get_verb_phrases(doc))
    /\ pc' = IF pc = "terms" THEN "phrases" ELSE "phrases again"
    /\ UNCHANGED <<doc, lexicon, phrase_runs, predict_vars, wait_vars>>

\* the matcher taking each matched object's lemma out of the object list
MatchDependentConsumingObjects ==
    /\ pc \in {"phrases", "phrases again"}
    /\ phrase_runs' = Append(phrase_runs,
            match_dependent_ableist_verbs(doc, ableist_verbs_object_dependent,
                                          ableist_objects))
    /\ ableist_objects' = ableist_objects \
            {doc[k].lemma : k \in {j \in DOMAIN doc :
                /\ doc[j].dep = "dobj"
                /\ is_verb(doc[doc[j].head])
                /\ doc[doc[j].head].lemma \in ableist_verbs_object_dependent}}
    /\ pc' = IF pc = "phrases" THEN "terms again" ELSE "done"
    /\ UNCHANGED <<doc, ableist_verbs, ableist_verbs_object_dependent,
                   term_runs, printed, predict_vars, wait_vars>>

MatchDependentAbleistVerbs ==
    /\ pc \in {"phrases", "phrases again"}
    /\ phrase_runs' = Append(phrase_runs,
            match_dependent_ableist_verbs(doc, ableist_verbs_object_dependent,
                                          ableist_objects))
    /\ pc' = IF pc = "phrases" THEN "terms again" ELSE "done"
    /\ UNCHANGED <<doc, lexicon, term_runs, printed, predict_vars, wait_vars>>

Next == FindAbleistTerms \/ MatchDependentAbleistVerbs

Spec == Init /\ [][Next]_vars

----------------------------------------------------------------------------
(* The MLflow wrappers: MLflowLanguageModel.predict *)

Digit(n) == <<"0", "1", "2", "3", "4", "5", "6", "7", "8", "9">>[n + 1]

\* str(n) for a non-negative integer
RECURSIVE Str(_)
Str(n) == IF n < 10 THEN Digit(n) ELSE Str(n \div 10) \o Digit(n % 10)

\* d[k] = v on a dictionary held as a function
DictSet(d, k, v) == [x \in DOMAIN d \cup {k} |-> IF x = k THEN v ELSE d[x]]

EmptyDict == [x \in {} |-> x]

\* the attributes whose values are integers
IntAttrs == {"start", "end", "i"}

\* str(value) of an attribute value
StrOf(name, value) == IF name \in IntAttrs THEN Str(value) ELSE value

\* the side-table record attached to a match of the detector, by lemma
SideData(lemma) ==
    [alternative_verbs |-> "alternatives of " \o lemma,
     example |-> "example of " \o lemma]

\* what the detector's find_ableist_language returns: matches with lemma,
\* start, end and the attached data
DetectorMatches ==
    {[kind |-> "Match",
      attrs |-> [lemma |-> l, start |-> s, end |-> e],
      data |-> SideData(l)] :
        l \in {"move", "lift"}, s \in 0..MaxStart, e \in 1..(MaxStart + 2)}

\* what the decoder's find_ableist_language returns: tokens and spans
DecoderMatches ==
    {[kind |-> "Token", attrs |-> [lemma_ |-> l, i |-> s]] :
        l \in {"move", "lift"}, s \in 0..MaxStart}
    \cup
    {[kind |-> "Span", attrs |-> [lemma_ |-> l, start |-> s, end |-> e]] :
        l \in {"move", "lift"}, s \in 0..MaxStart, e \in 1..(MaxStart + 2)}

WellFormed(m) == m.kind = "Token" \/ m.attrs.start < m.attrs.end

\* the names a caller may ask for: on the match, on its data, or on neither
PropertyNames == {"lemma", "lemma_", "start", "example"}

SeqsUpTo(S, n) == UNION {[1..k -> S] : k \in 0..n}

\* the index of the verb a match is anchored at, and the verb's lemma
AnchorOf(m) == IF m.kind = "Token" THEN m.attrs.i ELSE m.attrs.start
LemmaOf(m) == IF m.kind = "Match" THEN m.attrs.lemma ELSE m.attrs.lemma_

\* the matches of one call come from one document: a token has one lemma
FromOneDocument(result) ==
    \A j, k \in DOMAIN result :
        AnchorOf(result[j]) = AnchorOf(result[k]) => LemmaOf(result[j]) = LemmaOf(result[k])

\* str(ableist_term): the text of the match
TextOf(m) ==
    IF m.kind = "Token"
    THEN "token " \o Str(m.attrs.i)
    ELSE "tokens " \o Str(m.attrs.start) \o " to " \o Str(m.attrs.end)

\* A loop's progress: the dictionary built so far, or the exception raised
Built(dict) == [raised |-> "", dict |-> dict]
Raised(exception) == [raised |-> exception, dict |-> EmptyDict]

\* DetectorRecord with the second lookup's failure swallowed: a name found
\* neither on the match nor on its data is left out of the record
RECURSIVE DetectorRecordSkipping(_, _, _, _)
DetectorRecordSkipping(m, props, k, record) ==
    IF k > Len(props)
    THEN record
    ELSE LET p == props[k]
         IN  DetectorRecordSkipping(m, props, k + 1,
                IF p \in DOMAIN m.attrs
                THEN Built(DictSet(record.dict, p, StrOf(p, m.attrs[p])))
                ELSE IF p \in DOMAIN m.data
                     THEN Built(DictSet(record.dict, p, StrOf(p, m.data[p])))
                     ELSE record)

\* `for p in properties` of the detector's predict over the record of one
\* match: the value comes from the match, else from its data; AttributeError
\* propagates when neither has the name
RECURSIVE DetectorRecord(_, _, _, _)
DetectorRecord(m, props, k, record) ==
    IF record.raised # "" \/ k > Len(props)
    THEN record
    ELSE LET p == props[k]
         IN  DetectorRecord(m, props, k + 1,
                IF p \in DOMAIN m.attrs
                THEN Built(DictSet(record.dict, p, StrOf(p, m.attrs[p])))
                ELSE IF p \in DOMAIN m.data
                     THEN Built(DictSet(record.dict, p, StrOf(p, m.data[p])))
                     ELSE Raised("AttributeError"))

\* the loop `for ableist_term in result` of the detector's predict
RECURSIVE DetectorPredict(_, _, _, _)
DetectorPredict(result, props, k, sofar) ==
    IF sofar.raised # "" \/ k > Len(result)
    THEN sofar
    ELSE LET key == Str(result[k].attrs.start)
             record == DetectorRecord(result[k], props, 1, Built(EmptyDict))
         IN  DetectorPredict(result, props, k + 1,
                IF record.raised # ""
                THEN Raised(record.raised)
                ELSE Built(DictSet(sofar.dict, key, record.dict)))

\* the key the decoder's local wrapper files a match under
DecoderLocalKey(m) ==
    IF m.kind = "Span"
    THEN Str(m.attrs.start) \o ":" \o Str(m.attrs.end)
    ELSE Str(m.attrs.i)

\* `for at in properties` of the decoder's predict: getattr with no fallback
RECURSIVE DecoderRecord(_, _, _, _)
DecoderRecord(m, props, k, record) ==
    IF record.raised # "" \/ k > Len(props)
    THEN record
    ELSE LET at == props[k]
         IN  DecoderRecord(m, props, k + 1,
                IF at \in DOMAIN m.attrs
                THEN Built(DictSet(record.dict, at, m.attrs[at]))
                ELSE Raised("AttributeError"))

\* the loop `for ableist_term in results` of the decoder's local predict
RECURSIVE DecoderLocalPredict(_, _, _, _)
DecoderLocalPredict(result, props, k, sofar) ==
    IF sofar.raised # "" \/ k > Len(result)
    THEN sofar
    ELSE LET key == DecoderLocalKey(result[k])
             record == DecoderRecord(result[k], props, 1,
                          Built(DictSet(EmptyDict, "ableist_term", TextOf(result[k]))))
         IN  DecoderLocalPredict(result, props, k + 1,
                IF record.raised # ""
                THEN Raised(record.raised)
                ELSE Built(DictSet(sofar.dict, key, record.dict)))

InitPredict ==
    /\ doc = <<>>
    /\ ableist_verbs = {"lift", "see"}
    /\ ableist_verbs_object_dependent = {"move", "lift"}
    /\ ableist_objects = {"hand", "foot"}
    /\ pc = "done"
    /\ term_runs = <<>>
    /\ phrase_runs = <<>>
    /\ printed = <<>>
    /\ wrapper \in {"detector_mlflow_local", "decoder_mlflow_local"}
    /\ results \in SeqsUpTo(IF wrapper = "detector_mlflow_local"
                            THEN {m \in DetectorMatches : WellFormed(m)}
                            ELSE {m \in DecoderMatches : WellFormed(m)},
                            MaxMatches)
    /\ FromOneDocument(results)
    /\ properties \in SeqsUpTo(PropertyNames, MaxProperties)
    /\ outcome = "pending"
    /\ terms = <<>>
    /\ NotWaiting

Finish(call) ==
    /\ outcome' = IF call.raised # "" THEN call.raised ELSE "returned"
    /\ terms' = call.dict
    /\ UNCHANGED <<matcher_vars, wrapper, results, properties, wait_vars>>

PredictDetector ==
    /\ wrapper = "detector_mlflow_local"
    /\ outcome = "pending"
    /\ Finish(DetectorPredict(results, properties, 1, Built(EmptyDict)))

PredictDecoderLocal ==
    /\ wrapper = "decoder_mlflow_local"
    /\ outcome = "pending"
    /\ Finish(DecoderLocalPredict(results, properties, 1, Built(EmptyDict)))

NextPredict == PredictDetector \/ PredictDecoderLocal

SpecPredict == InitPredict /\ [][NextPredict]_vars

----------------------------------------------------------------------------
(* decoder_mlflow_registry.py: MLflowLanguageModel.predict *)

\* the key the decoder's registry wrapper files a match under
DecoderRegistryKey(m) ==
    IF m.kind = "Span" THEN Str(m.attrs.start) ELSE Str(m.attrs.i)

\* the loop `for ableist_term in results` of the decoder's registry predict
RECURSIVE DecoderRegistryPredict(_, _, _, _)
DecoderRegistryPredict(result, props, k, sofar) ==
    IF sofar.raised # "" \/ k > Len(result)
    THEN sofar
    ELSE LET m == result[k]
             key == DecoderRegistryKey(m)
             base == DictSet(DictSet(EmptyDict, "ableist_term", TextOf(m)), "end",
                             IF m.kind = "Span" THEN Str(m.attrs.end) ELSE Str(m.attrs.i))
             record == DecoderRecord(m, props, 1, Built(base))
         IN  DecoderRegistryPredict(result, props, k + 1,
                IF record.raised # ""
                THEN Raised(record.raised)
                ELSE Built(DictSet(sofar.dict, key, record.dict)))

\* predict of any of the three wrappers
InitWrappers ==
    /\ doc = <<>>
    /\ ableist_verbs = {"lift", "see"}
    /\ ableist_verbs_object_dependent = {"move", "lift"}
    /\ ableist_objects = {"hand", "foot"}
    /\ pc = "done"
    /\ term_runs = <<>>
    /\ phrase_runs = <<>>
    /\ printed = <<>>
    /\ wrapper \in {"detector_mlflow_local", "decoder_mlflow_local",
                    "decoder_mlflow_registry"}
    /\ results \in SeqsUpTo(IF wrapper = "detector_mlflow_local"
                            THEN {m \in DetectorMatches : WellFormed(m)}
                            ELSE {m \in DecoderMatches : WellFormed(m)},
                            MaxMatches)
    /\ FromOneDocument(results)
    /\ properties \in SeqsUpTo(PropertyNames, MaxProperties)
    /\ outcome = "pending"
    /\ terms = <<>>
    /\ NotWaiting

PredictDecoderRegistry ==
    /\ wrapper = "decoder_mlflow_registry"
    /\ outcome = "pending"
    /\ Finish(DecoderRegistryPredict(results, properties, 1, Built(EmptyDict)))

NextWrappers == PredictDetector \/ PredictDecoderLocal \/ PredictDecoderRegistry

SpecWrappers == InitWrappers /\ [][NextWrappers]_vars

----------------------------------------------------------------------------
(* decoder_mlflow_registry.py: wait_model_transition, as main calls it.    *)
(* main calls it for the previous model version with stage "None", inside  *)
(* a try that swallows any exception, and then for the new version with    *)
(* the stage "Staging", unprotected.                                       *)

MaxPolls == 10

\* the names ModelVersionStatus.from_string accepts
Statuses == {"PENDING_REGISTRATION", "FAILED_REGISTRATION", "READY"}

\* one entry of the record of calls made on the client
GetModelVersion(s) == [method |-> "get_model_version", status |-> s]
TransitionModelVersionStage(st) ==
    [method |-> "transition_model_version_stage", stage |-> st]

InitWait ==
    /\ doc = <<>>
    /\ ableist_verbs = {"lift", "see"}
    /\ ableist_verbs_object_dependent = {"move", "lift"}
    /\ ableist_objects = {"hand", "foot"}
    /\ pc = "done"
    /\ term_runs = <<>>
    /\ phrase_runs = <<>>
    /\ printed = <<>>
    /\ wrapper = "none"
    /\ results = <<>>
    /\ properties = <<>>
    /\ outcome = "pending"
    /\ terms = <<>>
    /\ model_version = "new_model_version - 1"
    /\ stage = "None"
    /\ iteration = 0
    /\ status = "none"
    /\ client_calls = <<>>
    /\ wait_pc = "for"

\* for _ in range(10): the next value, or the end of the loop and the return
ForRange ==
    /\ wait_pc = "for"
    /\ IF iteration < MaxPolls
       THEN /\ iteration' = iteration + 1
            /\ wait_pc' = "get_model_version"
       ELSE /\ wait_pc' = "returned"
            /\ UNCHANGED iteration
    /\ UNCHANGED <<matcher_vars, predict_vars, model_version, stage, status,
                   client_calls>>

\* client.get_model_version and ModelVersionStatus.from_string: the registry
\* answers with a status, or the call raises (the version does not exist,
\* the server cannot be reached)
Poll ==
    /\ wait_pc = "get_model_version"
    /\ \/ \E s \in Statuses :
             /\ status' = s
             /\ client_calls' = Append(client_calls, GetModelVersion(s))
             /\ wait_pc' = "if"
       \/ /\ wait_pc' = "raised"
          /\ UNCHANGED <<status, client_calls>>
    /\ UNCHANGED <<matcher_vars, predict_vars, model_version, stage, iteration>>

\* the same branch without its break: the loop would go on to time.sleep
TransitionWithoutBreak ==
    /\ wait_pc = "if"
    /\ status = "READY"
    /\ client_calls' = Append(client_calls, TransitionModelVersionStage(stage))
    /\ \/ wait_pc' = "for"
       \/ wait_pc' = "raised"
    /\ UNCHANGED <<matcher_vars, predict_vars, model_version, stage, iteration,
                   status>>

\* if status == ModelVersionStatus.READY: the transition is requested, and
\* the loop is left by break unless the request raises
Transition ==
    /\ wait_pc = "if"
    /\ status = "READY"
    /\ client_calls' = Append(client_calls, TransitionModelVersionStage(stage))
    /\ \/ wait_pc' = "returned"
       \/ wait_pc' = "raised"
    /\ UNCHANGED <<matcher_vars, predict_vars, model_version, stage, iteration,
                   status>>

\* time.sleep(1), reached when the status was not READY
Sleep ==
    /\ wait_pc = "if"
    /\ status # "READY"
    /\ wait_pc' = "for"
    /\ UNCHANGED <<matcher_vars, predict_vars, model_version, stage, iteration,
                   status, client_calls>>

\* main: the first call has returned, or raised and been caught and printed;
\* the second call starts with a client of its own
SecondCall ==
    /\ model_version = "new_model_version - 1"
    /\ wait_pc \in {"returned", "raised"}
    /\ model_version' = "new_model_version"
    /\ stage' = "Staging"
    /\ iteration' = 0
    /\ status' = "none"
    /\ client_calls' = <<>>
    /\ wait_pc' = "for"
    /\ UNCHANGED <<matcher_vars, predict_vars>>

NextWait == ForRange \/ Poll \/ Transition \/ Sleep \/ SecondCall

\* every statement of the script that can run does run
SpecWait == InitWait /\ [][NextWait]_vars /\ WF_vars(NextWait)

----------------------------------------------------------------------------
(* Vocabulary of the properties *)

Min(S) == CHOOSE x \in S : \A y \in S : x <= y

\* the elements of a finite set of integers, in ascending order
RECURSIVE Ascending(_)
Ascending(S) ==
    IF S = {} THEN <<>> ELSE <<Min(S)>> \o Ascending(S \ {Min(S)})

\* the direct objects that meet the three conditions of the dependent matcher
QualifyingObjects ==
    {k \in DOMAIN doc :
        /\ doc[k].dep = "dobj"
        /\ doc[k].lemma \in ableist_objects
        /\ doc[doc[k].head].pos = "VERB"
        /\ doc[doc[k].head].dep \notin {"aux", "auxpass", "neg"}
        /\ doc[doc[k].head].lemma \in ableist_verbs_object_dependent}

\* the tokens the standalone matcher is to return
ListedVerbs ==
    {k \in DOMAIN doc :
        /\ doc[k].pos = "VERB"
        /\ doc[k].dep \notin {"aux", "auxpass", "neg"}
        /\ doc[k].lemma \in ableist_verbs}

\* the tokens a span covers
Covered(span) == span.start..(span.end - 1)

Anchors == Ascending(QualifyingObjects)

----------------------------------------------------------------------------
(* C1 *)

\* C1: every call of match_dependent_ableist_verbs returns as many spans as
\* there are direct objects meeting the three conditions (dobj with a listed
\* lemma, head passing is_verb, head lemma in the dependent-verb set), one
\* per such object, anchored at the object's head; no other token yields a span.
C1_OneSpanPerQualifyingObject ==
    phrase_runs # <<>> =>
        LET anchors == Anchors
        IN  \A n \in DOMAIN phrase_runs :
                /\ Len(phrase_runs[n]) = Len(anchors)
                /\ Len(anchors) = Cardinality(QualifyingObjects)
                /\ \A k \in DOMAIN phrase_runs[n] :
                      phrase_runs[n][k].start = doc[anchors[k]].head

\* a call has returned a span for a qualifying object while a listed direct
\* object with a head that does not qualify, and an auxiliary use of a listed
\* verb, gave none
C1_Witness ==
    /\ phrase_runs # <<>>
    /\ Len(phrase_runs[1]) = 1
    /\ Cardinality(QualifyingObjects) = 1
    /\ \E k \in DOMAIN doc :
          /\ doc[k].dep = "dobj"
          /\ doc[k].lemma \in ableist_objects
          /\ k \notin QualifyingObjects
          /\ doc[doc[k].head].pos = "VERB"
          /\ doc[doc[k].head].dep = "aux"
          /\ doc[doc[k].head].lemma \in ableist_verbs_object_dependent

----------------------------------------------------------------------------
(* C2 *)

----------------------------------------------------------------------------
(* C3 *)

\* C3: every returned span has start < end and end <= number of tokens, and
\* contains both the anchor verb and the object.
C3_SpanNonEmptyAndCoversPair ==
    \A n \in DOMAIN phrase_runs :
        \A k \in DOMAIN phrase_runs[n] :
            LET obj == Anchors[k]
                span == phrase_runs[n][k]
            IN  /\ span.start < span.end
                /\ span.end <= DocLen(doc)
                /\ doc[obj].head \in Covered(span)
                /\ obj \in Covered(span)

----------------------------------------------------------------------------
(* C4 *)

\* C4: every call of the standalone matcher returns, in ascending token order
\* and without duplicates, exactly the tokens with POS VERB, an own dependency
\* label outside {aux, auxpass, neg} and a lemma in the ableist-verb set.
C4_StandaloneMatcherExact ==
    \A n \in DOMAIN term_runs :
        LET r == term_runs[n]
        IN  /\ \A k \in DOMAIN r : r[k].kind = "Token"
            /\ \A j, k \in DOMAIN r : j < k => r[j].i < r[k].i
            /\ {r[k].i : k \in DOMAIN r} = ListedVerbs

\* a listed verb with a negation child is returned, and a listed verb that is
\* itself labelled as an excluded dependent is not
C4_Witness ==
    /\ term_runs # <<>>
    /\ \E v \in DOMAIN doc :
          /\ \E k \in DOMAIN term_runs[1] : term_runs[1][k].i = v
          /\ \E c \in DOMAIN doc :
                /\ doc[c].head = v
                /\ doc[c].dep = "neg"
                /\ doc[c].pos = "VERB"
                /\ doc[c].lemma \in ableist_verbs
                /\ \A k \in DOMAIN term_runs[1] : term_runs[1][k].i # c

----------------------------------------------------------------------------
(* C5 *)

\* C5: find_ableist_terms returns the standalone-verb matches followed by the
\* verb-object phrase matches of the same document.
C5_ReturnsVerbsThenPhrases ==
    \A n \in DOMAIN term_runs :
        term_runs[n] =
            [k \in 1..Cardinality(ListedVerbs) |->
                [kind |-> "Token", i |-> Ascending(ListedVerbs)[k]]]
            \o [k \in 1..Len(Anchors) |->
                DocSlice(doc, doc[Anchors[k]].head, RightEdge(doc, Anchors[k]) + 1)]

----------------------------------------------------------------------------
(* C6 *)

\* the document holds exactly two qualifying verb-object pairs, with
\* different verbs
TwoPairs ==
    /\ Len(Anchors) = 2
    /\ doc[Anchors[1]].head # doc[Anchors[2]].head

PairsApart ==
    \A j, k \in 1..2 :
        j # k =>
            ~ (/\ doc[Anchors[k]].head <= doc[Anchors[j]].head
               /\ doc[Anchors[j]].head <= RightEdge(doc, Anchors[k]))

----------------------------------------------------------------------------
(* C7 *)

\* C7: the spans come in ascending order of the anchoring direct object (not
\* of the verb), one span per qualifying object, each the slice from the
\* object's head to the object's right edge; objects of one verb are not merged.
C7_SpansInObjectOrder ==
    phrase_runs # <<>> =>
        LET anchors == Anchors
            expected == [k \in 1..Len(anchors) |->
                DocSlice(doc, doc[anchors[k]].head, RightEdge(doc, anchors[k]) + 1)]
        IN  \A n \in DOMAIN phrase_runs : phrase_runs[n] = expected

\* one verb with two qualifying objects: two spans with the same start
C7_Witness ==
    /\ phrase_runs # <<>>
    /\ Len(phrase_runs[1]) = 2
    /\ doc[Anchors[1]].head = doc[Anchors[2]].head
    /\ phrase_runs[1][1].start = phrase_runs[1][2].start
    /\ phrase_runs[1][1] # phrase_runs[1][2]

----------------------------------------------------------------------------
(* C8 *)

\* C8: when a verb is in the standalone list and in the dependent-verb list
\* and has a qualifying direct object, the result of find_ableist_terms holds
\* the single-token match of the verb and the span anchored at it.
C8_DualMatchKept ==
    \A n \in DOMAIN term_runs :
        \A obj \in QualifyingObjects :
            doc[obj].head \in ListedVerbs =>
                /\ \E k \in DOMAIN term_runs[n] :
                      /\ term_runs[n][k].kind = "Token"
                      /\ term_runs[n][k].i = doc[obj].head
                /\ \E k \in DOMAIN term_runs[n] :
                      /\ term_runs[n][k].kind = "Span"
                      /\ term_runs[n][k].start = doc[obj].head

----------------------------------------------------------------------------
(* C9 *)

\* the key a wrapper files a match under
KeyOf(m) ==
    IF wrapper = "detector_mlflow_local" THEN Str(m.attrs.start) ELSE DecoderLocalKey(m)

\* the value predict is to store for a requested name, and whether there is one
Resolvable(m, p) ==
    \/ p \in DOMAIN m.attrs
    \/ wrapper = "detector_mlflow_local" /\ p \in DOMAIN m.data

Resolved(m, p) ==
    IF wrapper = "detector_mlflow_local"
    THEN IF p \in DOMAIN m.attrs THEN StrOf(p, m.attrs[p]) ELSE StrOf(p, m.data[p])
    ELSE m.attrs[p]

\* C9: when predict returns, the record filed for every match holds every
\* requested property name; the record of the last match filed under a key
\* holds, for each name, the value read from the match itself, else (in the
\* detector) from the match's data; and predict raises AttributeError, rather
\* than return a record without the name, exactly when some requested name is
\* on neither.
C9_RequestedKeysNeverOmitted ==
    /\ outcome = "returned" =>
          \A k \in DOMAIN results :
              /\ KeyOf(results[k]) \in DOMAIN terms
              /\ \A j \in DOMAIN properties :
                    /\ properties[j] \in DOMAIN terms[KeyOf(results[k])]
                    /\ (\A later \in DOMAIN results :
                           later > k => KeyOf(results[later]) # KeyOf(results[k]))
                       => terms[KeyOf(results[k])][properties[j]]
                             = Resolved(results[k], properties[j])
    /\ outcome = "AttributeError" <=>
          /\ outcome # "pending"
          /\ \E k \in DOMAIN results : \E j \in DOMAIN properties :
                ~ Resolvable(results[k], properties[j])

\* the detector's predict has returned a record whose "lemma" came from the
\* match and whose "example" came from the match's data
C9_Witness ==
    /\ wrapper = "detector_mlflow_local"
    /\ outcome = "returned"
    /\ Len(results) = 1
    /\ properties = <<"lemma", "example">>
    /\ terms[Str(results[1].attrs.start)] =
          [lemma |-> results[1].attrs.lemma, example |-> results[1].data.example]

----------------------------------------------------------------------------
(* C10 *)

----------------------------------------------------------------------------
(* C11 *)

\* C11: for a document with no tokens, every call of the standalone matcher
\* and of match_dependent_ableist_verbs returns the empty list, and each call
\* the driver has made has returned (none ended in an error).
C11_EmptyDocumentGivesNoMatches ==
    DocLen(doc) = 0 =>
        /\ \A n \in DOMAIN term_runs : term_runs[n] = <<>>
        /\ \A n \in DOMAIN phrase_runs : phrase_runs[n] = <<>>
        /\ pc = "phrases" => Len(term_runs) = 1 /\ Len(phrase_runs) = 0
        /\ pc = "terms again" => Len(term_runs) = 1 /\ Len(phrase_runs) = 1
        /\ pc = "phrases again" => Len(term_runs) = 2 /\ Len(phrase_runs) = 1
        /\ pc = "done" => Len(term_runs) = 2 /\ Len(phrase_runs) = 2

\* both matchers have been run on the empty document and returned nothing
C11_Witness ==
    /\ wrapper = "none"
    /\ DocLen(doc) = 0
    /\ pc = "done"
    /\ term_runs = << <<>>, <<>> >>
    /\ phrase_runs = << <<>>, <<>> >>

----------------------------------------------------------------------------
(* C12 *)

\* the key each wrapper files a match under
WrapperKey(m) ==
    CASE wrapper = "detector_mlflow_local" -> Str(m.attrs.start)
      [] wrapper = "decoder_mlflow_local" -> DecoderLocalKey(m)
      [] wrapper = "decoder_mlflow_registry" -> DecoderRegistryKey(m)

\* C12: the dictionary predict returns holds one record per match: two
\* distinct matches are never filed under the same key, so no record is
\* overwritten by a later match.
C12_OneRecordPerMatch ==
    outcome = "returned" =>
        /\ \A j, k \in DOMAIN results :
              results[j] # results[k] => WrapperKey(results[j]) # WrapperKey(results[k])
        /\ Cardinality(DOMAIN terms) = Cardinality({results[k] : k \in DOMAIN results})

\* the registry wrapper has returned one record for a single-token match and
\* a phrase match anchored at the same verb
C12_Witness ==
    /\ wrapper = "decoder_mlflow_registry"
    /\ outcome = "returned"
    /\ Len(results) = 2
    /\ results[1].kind = "Token"
    /\ results[2].kind = "Span"
    /\ results[1].attrs.i = results[2].attrs.start
    /\ Cardinality(DOMAIN terms) = 1

----------------------------------------------------------------------------
(* C13 *)

Polls == {k \in DOMAIN client_calls : client_calls[k].method = "get_model_version"}

Transitions ==
    {k \in DOMAIN client_calls :
        client_calls[k].method = "transition_model_version_stage"}

\* all ten polls of this invocation have been made and none observed READY
TenFruitlessPolls ==
    /\ Cardinality(Polls) = MaxPolls
    /\ \A k \in Polls : client_calls[k].status # "READY"

\* what one invocation has done so far is within the claim
WaitWithinLimits ==
    /\ Cardinality(Polls) <= MaxPolls
    /\ Cardinality(Transitions) <= 1
    /\ \A k \in Transitions :
          /\ k > 1
          /\ client_calls[k - 1] = GetModelVersion("READY")
          /\ k = Len(client_calls)
    /\ TenFruitlessPolls => Transitions = {} /\ wait_pc # "raised"

\* C13: an invocation of wait_model_transition polls the status at most 10
\* times; it requests the stage transition at most once, only right after a
\* poll that observed READY, and makes no call after that request; and when
\* none of its 10 polls observed READY it requests no transition, does not
\* raise, and returns.
C13_PollsTenTimesTransitionsOnce ==
    /\ []WaitWithinLimits
    /\ (TenFruitlessPolls ~> (wait_pc = "returned" /\ Transitions = {}))

\* main's second call has returned after ten polls that never saw READY
C13_Witness ==
    /\ model_version = "new_model_version"
    /\ wait_pc = "returned"
    /\ TenFruitlessPolls
    /\ Transitions = {}

====
